---------------------------- MODULE Spec2Model ----------------------------
(***************************************************************************)
(* CTMP broadcast relay (coretech-wirestorm).                              *)
(*                                                                         *)
(* The module models src/src/main.rs (the relay binary: source acceptor,   *)
(* destination acceptor, handle_source_connection) and src/src/lib.rs      *)
(* (Destinations, ThreadPool, Worker, validate_header, verify_checksum,    *)
(* broadcast_message, handle_transmitter).                                 *)
(*                                                                         *)
(* Specifications:                                                         *)
(*   Spec         - the relay as a concurrent state machine;               *)
(*   FairSpec     - Spec with the fairness of the OS scheduler on the      *)
(*                  steps of the server's own threads;                     *)
(*   FaultSpec    - the relay when writes to its stdout can fail;          *)
(*   PoolSpec     - the ThreadPool of lib.rs driven by a client;           *)
(*   PoolFairSpec - PoolSpec with the fairness of the scheduler;           *)
(*   CodecSpec    - the pure frame-codec functions on bounded inputs.      *)
(***************************************************************************)
EXTENDS Integers, Sequences, FiniteSets, TLC

(***************************************************************************)
(* Program constants.                                                      *)
(***************************************************************************)
CTMP_HEADER_LEN == 8
CTMP_MAGIC_BYTE == 204
CTMP_PAD == 0
CTMP_MAX_PAYLOAD_SIZE == 65536
\* mask of the sensitive flag in the options byte: (options & 0x40)
SENSITIVE_MASK == 64
\* the placeholder written over header[4], header[5] before summing (0xCC)
CHECKSUM_PLACEHOLDER == 204
\* ThreadPool::new(2)
POOL_SIZE == 2

(***************************************************************************)
(* Bounds of the model.                                                    *)
(***************************************************************************)
\* source connections the source acceptor accepts in a run
MaxConns == 2
\* destination connections the destination acceptor accepts in a run
MaxDests == 2
\* headers the sessions of a run read in full, all sessions together
MaxReads == 2
\* longest payload of the codec inputs
MaxPayloadLen == 2
\* jobs the client of the worker pool submits in a run
MaxJobs == 3

VARIABLES
    \* ---- relay ----
    handler,      \* which session function the pool's job calls
    mainPc,       \* source acceptor (main thread): position in its loop
    mainConn,     \* the stream the source acceptor holds (0: none)
    nextConn,     \* number of source connections accepted so far
    active,       \* active_source: Option<TcpStream>; 0 is None
    activeLock,   \* owner of the active_source mutex (None, MainThread, worker)
    queue,        \* mpsc channel of jobs (each job captures its stream)
    queueLock,    \* owner of the receiver mutex (None or worker)
    wpc,          \* worker -> position in Worker loop / session
    wconn,        \* worker -> stream of the job it runs (0: none)
    whdr,         \* worker -> header buffer
    wpayload,     \* worker -> payload buffer
    wframe,       \* worker -> frame built for broadcast
    widx,         \* worker -> retain_mut's position in the roster
    roster,       \* Destinations.receivers: Vec<TcpStream>
    rosterLock,   \* owner of the receivers mutex (None, DestThread, worker)
    destPc,       \* destination acceptor: position in its loop
    destConn,     \* the stream the destination acceptor holds (0: none)
    nextDest,     \* number of destination connections accepted so far
    destOk,       \* destination -> a write_all to it succeeds
    nReads,       \* headers read in full so far
    \* ---- history (what happened, for the properties) ----
    connState,    \* source connection -> "new", "pending", "admitted",
                  \* "running", "ended" or "rejected"
    errSeen,      \* source connection -> a terminal error was detected
    bcastCount,   \* source connection -> number of broadcasts begun for it
    destLog,      \* destination -> the writes it received, each
                  \* [n: number of the broadcast, full: the whole frame]
    bc,           \* the broadcast in progress, with what each sink received
    dropSeen,     \* source connection -> a frame of it was dropped
    joinedAt,     \* destination -> broadcasts begun when it was pushed
    stdoutOk,     \* a write to the process's stdout succeeds
    \* ---- worker pool driven by a client (lib.rs ThreadPool alone) ----
    sender,       \* ThreadPool.sender: Option<Sender<Job>> is Some
    channel,      \* the jobs sent and not yet received
    receiverLock, \* owner of the receiver mutex (None or worker)
    workerPc,     \* worker -> position in the loop of Worker::new
    workerJob,    \* worker -> the job it executes (0: none)
    dropPc,       \* position of Drop for ThreadPool
    joinNext,     \* the worker Drop joins next
    jobState,     \* job -> "new", "queued", "running", "done", "panicked",
                  \* "refused", "lost" or "undrained"
    taken,        \* the jobs in the order the workers received them
    joinErr,      \* the workers whose join returned Err
    \* ---- codec ----
    cHeader,      \* input header of the codec functions
    cPayload,     \* input payload of the codec functions
    cOut          \* their results

relayVars == <<handler, mainPc, mainConn, nextConn, active, activeLock, queue,
               queueLock, wpc, wconn, whdr, wpayload, wframe, widx, roster,
               rosterLock, destPc, destConn, nextDest, destOk, nReads,
               connState, errSeen, bcastCount, destLog, bc, dropSeen,
               joinedAt, stdoutOk>>
codecVars == <<cHeader, cPayload, cOut>>
poolVars == <<sender, channel, receiverLock, workerPc, workerJob, dropPc,
              joinNext, jobState, taken, joinErr>>
vars == <<relayVars, codecVars, poolVars>>

(***************************************************************************)
(* Bytes and words.                                                        *)
(***************************************************************************)
Min(a, b) == IF a < b THEN a ELSE b

\* u16::from_be_bytes([hi, lo])
u16_from_be_bytes(hi, lo) == hi * 256 + lo

\* (b & mask) != 0 for a one-bit mask
MaskSet(b, mask) == (b \div mask) % 2 = 1

\* x as u16
as_u16(x) == x % 65536

\* !x on a u16
not_u16(x) == 65535 - x

\* slice.chunks(2): the chunks of two bytes, the last one shorter when the
\* slice is odd
chunks2(s) ==
    [i \in 1..((Len(s) + 1) \div 2) |-> SubSeq(s, 2 * i - 1, Min(2 * i, Len(s)))]

(***************************************************************************)
(* lib.rs: validate_header.  The result is Ok((length as u16, sensitive))  *)
(* or Err(message).                                                        *)
(***************************************************************************)
Ok(len, sens) == [ok |-> TRUE, err |-> "", length |-> len, sensitive |-> sens]
Err(msg) == [ok |-> FALSE, err |-> msg, length |-> 0, sensitive |-> FALSE]

ERR_MAGIC == "Invalid magic byte"
ERR_PADDING == "Invalid padding"
ERR_PADDING_NS == "Invalid Padding for non sensitive headers"
ERR_LENGTH == "Invalid payload length"

\* mutant: the length check before the padding checks
validate_header_length_first(header) ==
    LET sensitive == MaskSet(header[2], SENSITIVE_MASK)
        length == u16_from_be_bytes(header[3], header[4])
    IN  IF header[1] # CTMP_MAGIC_BYTE THEN Err(ERR_MAGIC)
        ELSE IF length = 0 \/ length > CTMP_MAX_PAYLOAD_SIZE THEN Err(ERR_LENGTH)
        ELSE IF SubSeq(header, 7, 8) # <<CTMP_PAD, CTMP_PAD>> THEN Err(ERR_PADDING)
        ELSE IF ~sensitive /\ SubSeq(header, 5, 6) # <<0, 0>> THEN Err(ERR_PADDING_NS)
        ELSE Ok(as_u16(length), sensitive)

validate_header(header) ==
    LET sensitive == MaskSet(header[2], SENSITIVE_MASK)
        length == u16_from_be_bytes(header[3], header[4])
    IN  IF header[1] # CTMP_MAGIC_BYTE THEN Err(ERR_MAGIC)
        ELSE IF SubSeq(header, 7, 8) # <<CTMP_PAD, CTMP_PAD>> THEN Err(ERR_PADDING)
        ELSE IF ~sensitive /\ SubSeq(header, 5, 6) # <<0, 0>> THEN Err(ERR_PADDING_NS)
        ELSE IF length = 0 \/ length > CTMP_MAX_PAYLOAD_SIZE THEN Err(ERR_LENGTH)
        ELSE Ok(as_u16(length), sensitive)

(***************************************************************************)
(* lib.rs: verify_checksum.  One fold of the carries only.                 *)
(***************************************************************************)
\* the value of one chunk: u16::from_be_bytes([c0, c1]) or [c0, 0]
chunk_val(chunk) ==
    IF Len(chunk) = 2 THEN u16_from_be_bytes(chunk[1], chunk[2])
    ELSE u16_from_be_bytes(chunk[1], 0)

RECURSIVE sum_chunks(_, _)
\* the for loops: sum += val as u32, over the first n chunks
sum_chunks(chunks, n) ==
    IF n = 0 THEN 0 ELSE sum_chunks(chunks, n - 1) + chunk_val(chunks[n])

\* checksum_header: header with [4], [5] set to the placeholder
checksum_header(header) ==
    [header EXCEPT ![5] = CHECKSUM_PLACEHOLDER, ![6] = CHECKSUM_PLACEHOLDER]

verify_checksum(header, payload) ==
    LET hc == chunks2(checksum_header(header))
        pc == chunks2(payload)
        sum == sum_chunks(hc, Len(hc)) + sum_chunks(pc, Len(pc))
        folded == (sum % 65536) + (sum \div 65536)
    IN  not_u16(as_u16(folded))

(***************************************************************************)
(* main.rs: the checks handle_source_connection makes inline.              *)
(***************************************************************************)
\* header checks of main.rs, lines 105-128: magic, padding, length
source_check_header(header) ==
    LET sensitive == MaskSet(header[2], SENSITIVE_MASK)
        length == u16_from_be_bytes(header[3], header[4])
    IN  IF header[1] # CTMP_MAGIC_BYTE THEN Err(ERR_MAGIC)
        ELSE IF SubSeq(header, 7, 8) # <<CTMP_PAD, CTMP_PAD>> THEN Err(ERR_PADDING)
        ELSE IF length = 0 \/ length > CTMP_MAX_PAYLOAD_SIZE THEN Err(ERR_LENGTH)
        ELSE Ok(length, sensitive)

\* a.wrapping_add(b) on u32.  A frame has at most (8 + 65535 + 1) / 2 = 32772
\* words of at most 65535 each, so the sum stays below 2^32 and never wraps.
wrapping_add(a, b) == a + b

RECURSIVE wrapping_sum(_, _)
\* sum = sum.wrapping_add(val) over the first n chunks (u32)
wrapping_sum(chunks, n) ==
    IF n = 0 THEN 0
    ELSE wrapping_add(wrapping_sum(chunks, n - 1), chunk_val(chunks[n]))

RECURSIVE fold_carries(_)
\* while (sum >> 16) != 0 { sum = (sum & 0xFFFF) + (sum >> 16) }
fold_carries(sum) ==
    IF sum \div 65536 # 0 THEN fold_carries((sum % 65536) + (sum \div 65536))
    ELSE sum

\* checksum of main.rs, lines 139-157
source_checksum(header, payload) ==
    LET chunks == chunks2(checksum_header(header)) \o chunks2(payload)
        sum == wrapping_sum(chunks, Len(chunks))
    IN  not_u16(as_u16(fold_carries(sum)))

(***************************************************************************)
(* Threads and locks.                                                      *)
(***************************************************************************)
\* Option::None of active_source; no stream; no owner of a mutex
None == 0
\* owner id of the main thread (the source acceptor)
MainThread == -1
\* owner id of the spawned destination acceptor thread
DestThread == -2

Workers == 1..POOL_SIZE
Conns == 1..MaxConns
Dests == 1..MaxDests

\* the two session functions of the repository
HANDLE_SOURCE_CONNECTION == "handle_source_connection"
HANDLE_TRANSMITTER == "handle_transmitter"
Handlers == {HANDLE_SOURCE_CONNECTION, HANDLE_TRANSMITTER}

(***************************************************************************)
(* What a source may send: the results of read_exact(&mut header) and of   *)
(* read_exact(&mut payload).                                               *)
(***************************************************************************)
\* CC 00 00 01 00 00 00 00: non-sensitive, length 1
H_PLAIN == <<204, 0, 0, 1, 0, 0, 0, 0>>
\* CC 40 00 01 1E F1 00 00: sensitive, length 1, checksum of payload 48
H_SENSITIVE == <<204, 64, 0, 1, 30, 241, 0, 0>>
\* CC 00 00 01 1E F1 00 00: H_SENSITIVE with the sensitive bit flipped
H_FLIPPED == <<204, 0, 0, 1, 30, 241, 0, 0>>
\* AB ...: bad magic
H_BAD_MAGIC == <<171, 0, 0, 1, 0, 0, 0, 0>>
\* padding 00 01
H_BAD_PAD == <<204, 0, 0, 1, 0, 0, 0, 1>>
\* length 0
H_BAD_LENGTH == <<204, 0, 0, 0, 0, 0, 0, 0>>
\* CC 01 00 01 00 00 00 00: non-sensitive, reserved option bit 0 set
H_RESERVED == <<204, 1, 0, 1, 0, 0, 0, 0>>

HeaderInputs == {H_PLAIN, H_SENSITIVE, H_FLIPPED, H_BAD_MAGIC, H_BAD_PAD,
                 H_BAD_LENGTH, H_RESERVED}

PayloadCatalog == {<<72>>, <<222>>}

\* the payloads of n bytes a source may send
PayloadInputs(n) == {p \in PayloadCatalog : Len(p) = n}

(***************************************************************************)
(* The session's decisions, by session function.                           *)
(***************************************************************************)
\* header validation of the session function h
check_header(h, header) ==
    IF h = HANDLE_TRANSMITTER THEN validate_header(header)
    ELSE source_check_header(header)

\* checksum computed by the session function h
computed_checksum(h, header, payload) ==
    IF h = HANDLE_TRANSMITTER THEN verify_checksum(header, payload)
    ELSE source_checksum(header, payload)

\* checksum_in_msg
checksum_in_msg(header) == u16_from_be_bytes(header[5], header[6])

\* mutant: a mismatching sensitive frame is broadcast all the same
frame_dropped_never(h, header, payload) == FALSE

\* mutant: the checksum is compared for non-sensitive frames too
frame_dropped_any(h, header, payload) ==
    computed_checksum(h, header, payload) # checksum_in_msg(header)

\* if sensitive && checksum_computed != checksum_in_msg { continue }
frame_dropped(h, header, payload) ==
    /\ check_header(h, header).sensitive
    /\ computed_checksum(h, header, payload) # checksum_in_msg(header)

\* mutant: a terminal error resumes the loop instead of leaving it
error_continues == "read_header"

\* break: where the session goes on a read or validation error
error_next == "exit"

\* mutant: the frame is built from the header used for the checksum
build_frame_placeholder(header, payload) == checksum_header(header) \o payload

\* frame.extend_from_slice(&header); frame.extend_from_slice(&payload)
build_frame(header, payload) == header \o payload

(***************************************************************************)
(* The roster: retain_mut(|dest| dest.write_all(&frame).is_ok()).          *)
(***************************************************************************)
Range(f) == {f[i] : i \in DOMAIN f}

RemoveAt(s, i) == SubSeq(s, 1, i - 1) \o SubSeq(s, i + 1, Len(s))

\* mutant: a sink whose write failed is kept
retain_keep_all(r, i, ok) == [roster |-> r, next |-> i + 1]

\* mutant: after a sink that was written the next sink is passed over
retain_skip(r, i, ok) ==
    IF ok THEN [roster |-> r, next |-> i + 2]
    ELSE [roster |-> RemoveAt(r, i), next |-> i]

\* retain_mut visits position i, where the closure returned ok: the roster
\* and the next position
retain_visit(r, i, ok) ==
    IF ok THEN [roster |-> r, next |-> i + 1]
    ELSE [roster |-> RemoveAt(r, i), next |-> i]

\* what a failing write_all may have delivered: nothing, or the header only
PartialWrites(frame) == {<<>>, SubSeq(frame, 1, CTMP_HEADER_LEN)}

\* mutant: the pushed sink is lost
roster_push_lost(r, stream) == r

\* .push(stream) on the roster
roster_push(r, stream) == Append(r, stream)

\* mutant: the roster guard outlives the broadcast
dests_guard_kept(w) == w

\* `dests` is a local of the block that broadcasts (of broadcast_message in
\* lib.rs) and is dropped at its end
dests_guard_dropped(w) == None

\* mutant: the admission check is skipped
slot_occupied_never(a) == FALSE

\* active.is_some()
slot_occupied(a) == a # None

\* mutant: the acceptor admits the source and leaves the slot empty
slot_left_empty(stream) == None

\* *active = Some(stream.try_clone())
slot_filled(stream) == stream

\* mutant: the session leaves the slot as it is
slot_kept(a) == a

\* *active = None
slot_cleared(a) == None

InLoop(w) == wpc[w] \in {"read_header", "read_payload", "broadcast", "retain"}
InSession(w) == InLoop(w) \/ wpc[w] \in {"exit", "clear"}

NoBroadcast == [by |-> None, conn |-> None, n |-> 0, header |-> <<>>,
                payload |-> <<>>, frame |-> <<>>, start |-> <<>>, before |-> <<>>,
                delivered |-> <<>>, failed |-> {}, written |-> {}]

\* the number of broadcasts begun so far
BroadcastsBegun == LET RECURSIVE Total(_)
                       Total(c) == IF c = 0 THEN 0 ELSE bcastCount[c] + Total(c - 1)
                   IN  Total(MaxConns)

\* joinedAt of a destination that has not been pushed
NotJoined == -1

Jobs == 1..MaxJobs

\* the pool after ThreadPool::new(2): the workers spawned, nothing sent
PoolInit ==
    /\ sender = TRUE
    /\ channel = <<>>
    /\ receiverLock = None
    /\ workerPc = [w \in Workers |-> "lock"]
    /\ workerJob = [w \in Workers |-> None]
    /\ dropPc = "alive"
    /\ joinNext = 1
    /\ jobState = [j \in Jobs |-> "new"]
    /\ taken = <<>>
    /\ joinErr = {}

NoCodecOut == [stage |-> "idle", validated |-> Err(""), lib_checksum |-> 0,
               source_checksum |-> 0]

(***************************************************************************)
(* Initial state: after ThreadPool::new(2), Destinations::new(), the       *)
(* destination acceptor spawned, no connection accepted yet.               *)
(***************************************************************************)
RelayInit ==
    /\ mainPc = "accept" /\ mainConn = None /\ nextConn = 0
    /\ active = None /\ activeLock = None
    /\ queue = <<>> /\ queueLock = None
    /\ wpc = [w \in Workers |-> "idle"]
    /\ wconn = [w \in Workers |-> None]
    /\ whdr = [w \in Workers |-> <<>>]
    /\ wpayload = [w \in Workers |-> <<>>]
    /\ wframe = [w \in Workers |-> <<>>]
    /\ widx = [w \in Workers |-> 0]
    /\ roster = <<>> /\ rosterLock = None
    /\ destPc = "accept" /\ destConn = None /\ nextDest = 0
    /\ destOk = [d \in Dests |-> TRUE]
    /\ nReads = 0
    /\ connState = [c \in Conns |-> "new"]
    /\ errSeen = [c \in Conns |-> FALSE]
    /\ bcastCount = [c \in Conns |-> 0]
    /\ destLog = [d \in Dests |-> <<>>]
    /\ bc = NoBroadcast
    /\ dropSeen = [c \in Conns |-> FALSE]
    /\ joinedAt = [d \in Dests |-> NotJoined]
    /\ stdoutOk = TRUE

Init ==
    /\ handler \in Handlers
    /\ RelayInit
    /\ cHeader = <<>> /\ cPayload = <<>> /\ cOut = NoCodecOut
    /\ PoolInit

(***************************************************************************)
(* main.rs: the source acceptor, for stream in listener.incoming().        *)
(***************************************************************************)
\* listener.incoming() yields Ok(stream)
MainAccept ==
    /\ mainPc = "accept"
    /\ nextConn < MaxConns
    /\ nextConn' = nextConn + 1
    /\ mainConn' = nextConn + 1
    /\ connState' = [connState EXCEPT ![nextConn + 1] = "pending"]
    /\ mainPc' = "lock"
    /\ UNCHANGED <<handler, active, activeLock, queue, queueLock, wpc, wconn,
                   whdr, wpayload, wframe, widx, roster, rosterLock, destPc,
                   destConn, nextDest, destOk, nReads, errSeen, bcastCount,
                   destLog, bc, dropSeen, codecVars, poolVars,
                   joinedAt, stdoutOk>>

\* active_clone.lock()
MainLock ==
    /\ mainPc = "lock"
    /\ activeLock = None
    /\ activeLock' = MainThread
    /\ mainPc' = "check"
    /\ UNCHANGED <<handler, mainConn, nextConn, active, queue, queueLock, wpc,
                   wconn, whdr, wpayload, wframe, widx, roster, rosterLock,
                   destPc, destConn, nextDest, destOk, nReads, connState,
                   errSeen, bcastCount, destLog, bc, dropSeen, codecVars, poolVars,
                   joinedAt, stdoutOk>>

\* if active.is_some() { continue } else { *active = Some(stream.try_clone()) },
\* then the guard is dropped
MainCheck ==
    /\ mainPc = "check"
    /\ activeLock = MainThread
    /\ activeLock' = None
    /\ IF slot_occupied(active)
       THEN /\ connState' = [connState EXCEPT ![mainConn] = "rejected"]
            /\ mainConn' = None
            /\ mainPc' = "accept"
            /\ UNCHANGED active
       ELSE /\ active' = slot_filled(mainConn)
            /\ connState' = [connState EXCEPT ![mainConn] = "admitted"]
            /\ mainPc' = "submit"
            /\ UNCHANGED mainConn
    /\ UNCHANGED <<handler, nextConn, queue, queueLock, wpc, wconn, whdr,
                   wpayload, wframe, widx, roster, rosterLock, destPc,
                   destConn, nextDest, destOk, nReads, errSeen, bcastCount,
                   destLog, bc, dropSeen, codecVars, poolVars,
                   joinedAt, stdoutOk>>

\* pool.execute(move || handle_source_connection(stream, ..)): sender.send(job)
MainSubmit ==
    /\ mainPc = "submit"
    /\ queue' = Append(queue, mainConn)
    /\ mainConn' = None
    /\ mainPc' = "accept"
    /\ UNCHANGED <<handler, nextConn, active, activeLock, queueLock, wpc,
                   wconn, whdr, wpayload, wframe, widx, roster, rosterLock,
                   destPc, destConn, nextDest, destOk, nReads, connState,
                   errSeen, bcastCount, destLog, bc, dropSeen, codecVars, poolVars,
                   joinedAt, stdoutOk>>

(***************************************************************************)
(* main.rs: the destination acceptor thread.                               *)
(***************************************************************************)
\* dest_listener.incoming() yields Ok(stream)
DestAccept ==
    /\ destPc = "accept"
    /\ nextDest < MaxDests
    /\ nextDest' = nextDest + 1
    /\ destConn' = nextDest + 1
    /\ destPc' = "lock"
    /\ UNCHANGED <<handler, mainPc, mainConn, nextConn, active, activeLock,
                   queue, queueLock, wpc, wconn, whdr, wpayload, wframe, widx,
                   roster, rosterLock, destOk, nReads, connState, errSeen,
                   bcastCount, destLog, bc, dropSeen, codecVars, poolVars,
                   joinedAt, stdoutOk>>

\* dest_clone.lock()
DestLock ==
    /\ destPc = "lock"
    /\ rosterLock = None
    /\ rosterLock' = DestThread
    /\ destPc' = "push"
    /\ UNCHANGED <<handler, mainPc, mainConn, nextConn, active, activeLock,
                   queue, queueLock, wpc, wconn, whdr, wpayload, wframe, widx,
                   roster, destConn, nextDest, destOk, nReads, connState,
                   errSeen, bcastCount, destLog, bc, dropSeen, codecVars, poolVars,
                   joinedAt, stdoutOk>>

\* .push(stream), then the guard is dropped
DestPush ==
    /\ destPc = "push"
    /\ rosterLock = DestThread
    /\ roster' = roster_push(roster, destConn)
    /\ joinedAt' = [joinedAt EXCEPT ![destConn] = BroadcastsBegun]
    /\ rosterLock' = None
    /\ destConn' = None
    /\ destPc' = "accept"
    /\ UNCHANGED <<handler, mainPc, mainConn, nextConn, active, activeLock,
                   queue, queueLock, wpc, wconn, whdr, wpayload, wframe, widx,
                   nextDest, destOk, nReads, connState, errSeen, bcastCount,
                   destLog, bc, dropSeen, codecVars, poolVars,
                   stdoutOk>>

\* the peer of destination d goes away: writes to d fail from now on
DestBreak(d) ==
    /\ d <= nextDest
    /\ destOk[d]
    /\ destOk' = [destOk EXCEPT ![d] = FALSE]
    /\ UNCHANGED <<handler, mainPc, mainConn, nextConn, active, activeLock,
                   queue, queueLock, wpc, wconn, whdr, wpayload, wframe, widx,
                   roster, rosterLock, destPc, destConn, nextDest, nReads,
                   connState, errSeen, bcastCount, destLog, bc, dropSeen,
                   codecVars, poolVars,
                   joinedAt, stdoutOk>>

(***************************************************************************)
(* lib.rs: Worker::new, the worker's loop.                                 *)
(***************************************************************************)
\* receiver.lock()
WorkerLock(w) ==
    /\ wpc[w] = "idle"
    /\ queueLock = None
    /\ queueLock' = w
    /\ wpc' = [wpc EXCEPT ![w] = "recv"]
    /\ UNCHANGED <<handler, mainPc, mainConn, nextConn, active, activeLock,
                   queue, wconn, whdr, wpayload, wframe, widx, roster,
                   rosterLock, destPc, destConn, nextDest, destOk, nReads,
                   connState, errSeen, bcastCount, destLog, bc, dropSeen,
                   codecVars, poolVars,
                   joinedAt, stdoutOk>>

\* guard.recv() returns Ok(job); the guard is dropped at the end of the let
\* statement; println!("Worker {id} got a job; executing.") is written;
\* job() starts
WorkerRecv(w) ==
    /\ wpc[w] = "recv"
    /\ queueLock = w
    /\ queue # <<>>
    /\ stdoutOk
    /\ queue' = Tail(queue)
    /\ queueLock' = None
    /\ wconn' = [wconn EXCEPT ![w] = Head(queue)]
    /\ connState' = [connState EXCEPT ![Head(queue)] = "running"]
    /\ wpc' = [wpc EXCEPT ![w] = "read_header"]
    /\ UNCHANGED <<handler, mainPc, mainConn, nextConn, active, activeLock,
                   whdr, wpayload, wframe, widx, roster, rosterLock, destPc,
                   destConn, nextDest, destOk, nReads, errSeen, bcastCount,
                   destLog, bc, dropSeen, codecVars, poolVars,
                   joinedAt, stdoutOk>>

(***************************************************************************)
(* The source session: handle_source_connection (main.rs) and              *)
(* handle_transmitter (lib.rs), run by worker w on stream wconn[w].        *)
(***************************************************************************)
\* buf_reader.read_exact(&mut header) fails (peer closed, short read): break
SessReadHeaderFail(w) ==
    /\ wpc[w] = "read_header"
    /\ wpc' = [wpc EXCEPT ![w] = error_next]
    /\ errSeen' = [errSeen EXCEPT ![wconn[w]] = TRUE]
    /\ whdr' = [whdr EXCEPT ![w] = <<>>]
    /\ wpayload' = [wpayload EXCEPT ![w] = <<>>]
    /\ UNCHANGED <<handler, mainPc, mainConn, nextConn, active, activeLock,
                   queue, queueLock, wconn, wframe, widx, roster, rosterLock,
                   destPc, destConn, nextDest, destOk, nReads, connState,
                   bcastCount, destLog, bc, dropSeen, codecVars, poolVars,
                   joinedAt, stdoutOk>>

\* read_exact(&mut header) fills the header; the header is printed
\* (println!) and validated
SessReadHeader(w) ==
    /\ wpc[w] = "read_header"
    /\ nReads < MaxReads
    /\ stdoutOk
    /\ \E header \in HeaderInputs :
         LET r == check_header(handler, header)
         IN  /\ nReads' = nReads + 1
             /\ whdr' = [whdr EXCEPT ![w] = header]
             /\ IF r.ok
                THEN /\ wpc' = [wpc EXCEPT ![w] = "read_payload"]
                     /\ UNCHANGED errSeen
                ELSE /\ wpc' = [wpc EXCEPT ![w] = error_next]
                     /\ errSeen' = [errSeen EXCEPT ![wconn[w]] = TRUE]
    /\ wpayload' = [wpayload EXCEPT ![w] = <<>>]
    /\ UNCHANGED <<handler, mainPc, mainConn, nextConn, active, activeLock,
                   queue, queueLock, wconn, wframe, widx, roster, rosterLock,
                   destPc, destConn, nextDest, destOk, connState, bcastCount,
                   destLog, bc, dropSeen, codecVars, poolVars,
                   joinedAt, stdoutOk>>

\* buf_reader.read_exact(&mut payload) fails: break
SessReadPayloadFail(w) ==
    /\ wpc[w] = "read_payload"
    /\ wpc' = [wpc EXCEPT ![w] = error_next]
    /\ errSeen' = [errSeen EXCEPT ![wconn[w]] = TRUE]
    /\ whdr' = [whdr EXCEPT ![w] = <<>>]
    /\ wpayload' = [wpayload EXCEPT ![w] = <<>>]
    /\ UNCHANGED <<handler, mainPc, mainConn, nextConn, active, activeLock,
                   queue, queueLock, wconn, wframe, widx, roster, rosterLock,
                   destPc, destConn, nextDest, destOk, nReads, connState,
                   bcastCount, destLog, bc, dropSeen, codecVars, poolVars,
                   joinedAt, stdoutOk>>

\* read_exact(&mut payload) fills vec![0u8; length]; a sensitive frame whose
\* checksum differs is dropped (continue), any other frame goes to broadcast
SessReadPayload(w) ==
    /\ wpc[w] = "read_payload"
    /\ \E payload \in PayloadInputs(check_header(handler, whdr[w]).length) :
         /\ wpayload' = [wpayload EXCEPT ![w] = payload]
         /\ IF frame_dropped(handler, whdr[w], payload)
            THEN /\ wpc' = [wpc EXCEPT ![w] = "read_header"]
                 /\ dropSeen' = [dropSeen EXCEPT ![wconn[w]] = TRUE]
            ELSE /\ wpc' = [wpc EXCEPT ![w] = "broadcast"]
                 /\ UNCHANGED dropSeen
    /\ UNCHANGED <<handler, whdr, mainPc, mainConn, nextConn, active,
                   activeLock, queue, queueLock, wconn, wframe, widx, roster,
                   rosterLock, destPc, destConn, nextDest, destOk, nReads,
                   connState, errSeen, bcastCount, destLog, bc, codecVars, poolVars,
                   joinedAt, stdoutOk>>

\* the frame is built; destinations.lock(); retain_mut starts
SessBroadcastLock(w) ==
    /\ wpc[w] = "broadcast"
    /\ rosterLock = None
    /\ rosterLock' = w
    /\ LET frame == build_frame(whdr[w], wpayload[w])
       IN  /\ wframe' = [wframe EXCEPT ![w] = frame]
           /\ bcastCount' = [bcastCount EXCEPT ![wconn[w]] = @ + 1]
           /\ bc' = [by |-> w, conn |-> wconn[w], n |-> BroadcastsBegun + 1,
                     header |-> whdr[w], payload |-> wpayload[w], frame |-> frame,
                     start |-> roster, before |-> destLog,
                     delivered |-> [d \in Range(roster) |-> <<>>],
                     failed |-> {}, written |-> {}]
    /\ widx' = [widx EXCEPT ![w] = 1]
    /\ wpc' = [wpc EXCEPT ![w] = "retain"]
    /\ UNCHANGED <<handler, mainPc, mainConn, nextConn, active, activeLock,
                   queue, queueLock, wconn, whdr, wpayload, roster, destPc,
                   destConn, nextDest, destOk, nReads, connState, errSeen,
                   destLog, dropSeen, codecVars, poolVars,
                   joinedAt, stdoutOk>>

\* retain_mut visits one sink: dest.write_all(&frame).is_ok()
SessWrite(w) ==
    /\ wpc[w] = "retain"
    /\ rosterLock = w
    /\ widx[w] <= Len(roster)
    /\ LET d == roster[widx[w]]
           ok == destOk[d]
           v == retain_visit(roster, widx[w], ok)
       IN  /\ roster' = v.roster
           /\ widx' = [widx EXCEPT ![w] = v.next]
           /\ IF ok
              THEN /\ destLog' = [destLog EXCEPT ![d] =
                                     Append(@, [n |-> bc.n, full |-> TRUE])]
                   /\ bc' = [bc EXCEPT !.written = @ \cup {d},
                                       !.delivered[d] = wframe[w]]
              ELSE \E part \in PartialWrites(wframe[w]) :
                     /\ destLog' = [destLog EXCEPT ![d] =
                                       IF part = <<>> THEN @
                                       ELSE Append(@, [n |-> bc.n, full |-> FALSE])]
                     /\ bc' = [bc EXCEPT !.failed = @ \cup {d},
                                         !.delivered[d] = part]
    /\ UNCHANGED <<handler, mainPc, mainConn, nextConn, active, activeLock,
                   queue, queueLock, wpc, wconn, whdr, wpayload, wframe,
                   rosterLock, destPc, destConn, nextDest, destOk, nReads,
                   connState, errSeen, bcastCount, dropSeen, codecVars, poolVars,
                   joinedAt, stdoutOk>>

\* retain_mut has returned; the guard is dropped; the loop goes on
SessBroadcastEnd(w) ==
    /\ wpc[w] = "retain"
    /\ rosterLock = w
    /\ widx[w] > Len(roster)
    /\ rosterLock' = dests_guard_dropped(w)
    /\ bc' = NoBroadcast
    /\ wpc' = [wpc EXCEPT ![w] = "read_header"]
    /\ whdr' = [whdr EXCEPT ![w] = <<>>]
    /\ wpayload' = [wpayload EXCEPT ![w] = <<>>]
    /\ wframe' = [wframe EXCEPT ![w] = <<>>]
    /\ widx' = [widx EXCEPT ![w] = 0]
    /\ UNCHANGED <<handler, mainPc, mainConn, nextConn, active, activeLock,
                   queue, queueLock, wconn, roster, destPc, destConn,
                   nextDest, destOk, nReads, connState, errSeen, bcastCount,
                   destLog, dropSeen, codecVars, poolVars,
                   joinedAt, stdoutOk>>

\* after the loop: active_source.lock()
SessExitLock(w) ==
    /\ wpc[w] = "exit"
    /\ activeLock = None
    /\ activeLock' = w
    /\ wpc' = [wpc EXCEPT ![w] = "clear"]
    /\ UNCHANGED <<handler, mainPc, mainConn, nextConn, active, queue,
                   queueLock, wconn, whdr, wpayload, wframe, widx, roster,
                   rosterLock, destPc, destConn, nextDest, destOk, nReads,
                   connState, errSeen, bcastCount, destLog, bc, dropSeen,
                   codecVars, poolVars,
                   joinedAt, stdoutOk>>

\* *active = None; the function returns and the worker loops
SessClear(w) ==
    /\ wpc[w] = "clear"
    /\ activeLock = w
    /\ active' = slot_cleared(active)
    /\ activeLock' = None
    /\ connState' = [connState EXCEPT ![wconn[w]] = "ended"]
    /\ wconn' = [wconn EXCEPT ![w] = None]
    /\ wpc' = [wpc EXCEPT ![w] = "idle"]
    /\ whdr' = [whdr EXCEPT ![w] = <<>>]
    /\ UNCHANGED <<handler, mainPc, mainConn, nextConn, queue, queueLock,
                   wpayload, wframe, widx, roster, rosterLock, destPc,
                   destConn, nextDest, destOk, nReads, errSeen, bcastCount,
                   destLog, bc, dropSeen, codecVars, poolVars,
                   joinedAt, stdoutOk>>

(***************************************************************************)
(* The relay.                                                              *)
(***************************************************************************)
Next ==
    \/ MainAccept
    \/ MainLock
    \/ MainCheck
    \/ MainSubmit
    \/ DestAccept
    \/ DestLock
    \/ DestPush
    \/ \E d \in Dests : DestBreak(d)
    \/ \E w \in Workers : WorkerLock(w)
    \/ \E w \in Workers : WorkerRecv(w)
    \/ \E w \in Workers : SessReadHeaderFail(w)
    \/ \E w \in Workers : SessReadHeader(w)
    \/ \E w \in Workers : SessReadPayloadFail(w)
    \/ \E w \in Workers : SessReadPayload(w)
    \/ \E w \in Workers : SessBroadcastLock(w)
    \/ \E w \in Workers : SessWrite(w)
    \/ \E w \in Workers : SessBroadcastEnd(w)
    \/ \E w \in Workers : SessExitLock(w)
    \/ \E w \in Workers : SessClear(w)

Spec == Init /\ [][Next]_vars

(***************************************************************************)
(* The relay when its stdout can fail.  println! panics when the write to  *)
(* stdout fails (a closed pipe); nothing catches the panic, so it unwinds  *)
(* the worker thread and ends it.  The println! of a session and of the    *)
(* worker loop are made with no mutex held.  stderr is taken to stay       *)
(* writable.                                                               *)
(***************************************************************************)
\* the reader of the process's stdout goes away
StdoutClose ==
    /\ stdoutOk
    /\ stdoutOk' = FALSE
    /\ UNCHANGED <<handler, mainPc, mainConn, nextConn, active, activeLock,
                   queue, queueLock, wpc, wconn, whdr, wpayload, wframe, widx,
                   roster, rosterLock, destPc, destConn, nextDest, destOk,
                   nReads, connState, errSeen, bcastCount, destLog, bc,
                   dropSeen, joinedAt, codecVars, poolVars>>

\* guard.recv() returns Ok(job) and the guard is dropped; println!("Worker
\* {id} got a job; executing.") panics: the thread ends before job() and the
\* job is dropped unrun
WorkerRecvPanic(w) ==
    /\ wpc[w] = "recv"
    /\ queueLock = w
    /\ queue # <<>>
    /\ ~stdoutOk
    /\ queue' = Tail(queue)
    /\ queueLock' = None
    /\ connState' = [connState EXCEPT ![Head(queue)] = "lost"]
    /\ wpc' = [wpc EXCEPT ![w] = "dead"]
    /\ UNCHANGED <<handler, mainPc, mainConn, nextConn, active, activeLock,
                   wconn, whdr, wpayload, wframe, widx, roster, rosterLock,
                   destPc, destConn, nextDest, destOk, nReads, errSeen,
                   bcastCount, destLog, bc, dropSeen, joinedAt, stdoutOk,
                   codecVars, poolVars>>

\* read_exact(&mut header) fills the header; println!("Received header:
\* ..") panics (main.rs 103; lib.rs 225 in validate_header): the session
\* unwinds out of its loop past the clearing of the slot, and the worker
\* thread ends
SessPrintPanic(w) ==
    /\ wpc[w] = "read_header"
    /\ nReads < MaxReads
    /\ ~stdoutOk
    /\ nReads' = nReads + 1
    /\ connState' = [connState EXCEPT ![wconn[w]] = "panicked"]
    /\ wconn' = [wconn EXCEPT ![w] = None]
    /\ wpc' = [wpc EXCEPT ![w] = "dead"]
    /\ whdr' = [whdr EXCEPT ![w] = <<>>]
    /\ wpayload' = [wpayload EXCEPT ![w] = <<>>]
    /\ UNCHANGED <<handler, mainPc, mainConn, nextConn, active, activeLock,
                   queue, queueLock, wframe, widx, roster, rosterLock, destPc,
                   destConn, nextDest, destOk, errSeen, bcastCount, destLog,
                   bc, dropSeen, joinedAt, stdoutOk, codecVars, poolVars>>

FaultNext ==
    \/ Next
    \/ StdoutClose
    \/ \E w \in Workers : WorkerRecvPanic(w)
    \/ \E w \in Workers : SessPrintPanic(w)

FaultSpec == Init /\ [][FaultNext]_vars

(***************************************************************************)
(* Fairness: the OS scheduler runs every thread of the server that can     *)
(* take a step.  Nothing is assumed of the peers: a source may stay silent,*)
(* no connection need ever arrive, and a destination need not take the     *)
(* bytes written to it, so a read_exact or a write_all may block for ever. *)
(***************************************************************************)
MainStep == MainLock \/ MainCheck \/ MainSubmit
DestStep == DestLock \/ DestPush
\* a write_all that fails returns: the peer is gone and the error is at hand
SessWriteErr(w) ==
    /\ wpc[w] = "retain"
    /\ widx[w] <= Len(roster)
    /\ ~destOk[roster[widx[w]]]
    /\ SessWrite(w)

\* the steps of a worker that wait for no peer: the locks, the channel, the
\* start and the end of retain_mut, a failing write, the clearing of the
\* slot.  A write_all to a destination that is connected returns once the
\* destination has taken the bytes, which it need not do.
WorkerStep(w) ==
    \/ WorkerLock(w) \/ WorkerRecv(w)
    \/ SessBroadcastLock(w) \/ SessWriteErr(w) \/ SessBroadcastEnd(w)
    \/ SessExitLock(w) \/ SessClear(w)

Fairness ==
    /\ WF_vars(MainStep)
    /\ WF_vars(DestStep)
    /\ \A w \in Workers : WF_vars(WorkerStep(w))

FairSpec == Spec /\ Fairness

(***************************************************************************)
(* lib.rs: the ThreadPool by itself, driven by a client that sends jobs    *)
(* and drops the pool.  A job is a closure that, once called, returns or   *)
(* panics; a panic unwinds the worker thread that called it.               *)
(***************************************************************************)
\* the receiver lives as long as a worker thread holds its Arc
ReceiverAlive == \E w \in Workers : workerPc[w] \notin {"exited", "panicked"}

\* the job the client sends next
NextJob == Cardinality({j \in Jobs : jobState[j] # "new"}) + 1

\* mutant: the guard lives on while the job runs
guard_kept(w) == w

\* the MutexGuard is a temporary of `let message = match receiver.lock()
\* { Ok(guard) => guard.recv(), .. };` and is dropped at the end of the let
guard_dropped(w) == None

\* pool.execute(f): sender.send(job); a send that fails is logged and the
\* job is dropped
Execute ==
    /\ dropPc = "alive"
    /\ NextJob <= MaxJobs
    /\ IF ReceiverAlive
       THEN /\ channel' = Append(channel, NextJob)
            /\ jobState' = [jobState EXCEPT ![NextJob] = "queued"]
       ELSE /\ jobState' = [jobState EXCEPT ![NextJob] = "refused"]
            /\ UNCHANGED channel
    /\ UNCHANGED <<sender, receiverLock, workerPc, workerJob, dropPc,
                   joinNext, taken, joinErr, relayVars, codecVars>>

\* receiver.lock()
PoolWorkerLock(w) ==
    /\ workerPc[w] = "lock"
    /\ receiverLock = None
    /\ receiverLock' = w
    /\ workerPc' = [workerPc EXCEPT ![w] = "recv"]
    /\ UNCHANGED <<sender, channel, workerJob, dropPc, joinNext, jobState,
                   taken, joinErr, relayVars, codecVars>>

\* guard.recv() returns Ok(job): jobs sent before the sender was dropped
\* are still received; job() is called
PoolWorkerRecv(w) ==
    /\ workerPc[w] = "recv"
    /\ receiverLock = w
    /\ channel # <<>>
    /\ channel' = Tail(channel)
    /\ receiverLock' = guard_dropped(w)
    /\ workerJob' = [workerJob EXCEPT ![w] = Head(channel)]
    /\ taken' = Append(taken, Head(channel))
    /\ jobState' = [jobState EXCEPT ![Head(channel)] = "running"]
    /\ workerPc' = [workerPc EXCEPT ![w] = "job"]
    /\ UNCHANGED <<sender, dropPc, joinNext, joinErr, relayVars, codecVars>>

\* guard.recv() returns Err: the channel is empty and the sender dropped;
\* the worker breaks out of its loop and the thread ends
PoolWorkerRecvErr(w) ==
    /\ workerPc[w] = "recv"
    /\ receiverLock = w
    /\ channel = <<>>
    /\ ~sender
    /\ receiverLock' = None
    /\ workerPc' = [workerPc EXCEPT ![w] = "exited"]
    /\ UNCHANGED <<sender, channel, workerJob, dropPc, joinNext, jobState,
                   taken, joinErr, relayVars, codecVars>>

\* job() returns; the worker loops
JobReturn(w) ==
    /\ workerPc[w] = "job"
    /\ jobState' = [jobState EXCEPT ![workerJob[w]] = "done"]
    /\ workerJob' = [workerJob EXCEPT ![w] = None]
    /\ workerPc' = [workerPc EXCEPT ![w] = "lock"]
    /\ UNCHANGED <<sender, channel, receiverLock, dropPc, joinNext, taken,
                   joinErr, relayVars, codecVars>>

\* job() panics: nothing catches it, the worker thread ends.  When it was
\* the last worker thread the receiver is dropped with the jobs still in
\* the channel, which are never run ("lost"; "undrained" when the pool was
\* being dropped).
JobPanic(w) ==
    /\ workerPc[w] = "job"
    /\ workerPc' = [workerPc EXCEPT ![w] = "panicked"]
    /\ workerJob' = [workerJob EXCEPT ![w] = None]
    /\ LET last == \A v \in Workers \ {w} : workerPc[v] \in {"exited", "panicked"}
       IN  /\ jobState' = [j \in Jobs |->
                             IF j = workerJob[w] THEN "panicked"
                             ELSE IF last /\ jobState[j] = "queued"
                                  THEN (IF sender THEN "lost" ELSE "undrained")
                             ELSE jobState[j]]
           /\ channel' = IF last THEN <<>> ELSE channel
    /\ UNCHANGED <<sender, receiverLock, dropPc, joinNext, taken, joinErr,
                   relayVars, codecVars>>

\* Drop for ThreadPool: drop(self.sender.take()) closes the channel
DropClose ==
    /\ dropPc = "alive"
    /\ sender' = FALSE
    /\ dropPc' = "join"
    /\ UNCHANGED <<channel, receiverLock, workerPc, workerJob, joinNext,
                   jobState, taken, joinErr, relayVars, codecVars>>

\* for worker in self.workers.drain(..): worker.thread.join() returns once
\* the thread has ended, Err when it ended by panic (reported, and the loop
\* goes on)
DropJoin ==
    /\ dropPc = "join"
    /\ workerPc[joinNext] \in {"exited", "panicked"}
    /\ joinErr' = IF workerPc[joinNext] = "panicked" THEN joinErr \cup {joinNext}
                  ELSE joinErr
    /\ IF joinNext = POOL_SIZE
       THEN dropPc' = "joined" /\ UNCHANGED joinNext
       ELSE joinNext' = joinNext + 1 /\ UNCHANGED dropPc
    /\ UNCHANGED <<sender, channel, receiverLock, workerPc, workerJob,
                   jobState, taken, relayVars, codecVars>>

PoolNext ==
    \/ Execute
    \/ \E w \in Workers : PoolWorkerLock(w)
    \/ \E w \in Workers : PoolWorkerRecv(w)
    \/ \E w \in Workers : PoolWorkerRecvErr(w)
    \/ \E w \in Workers : JobReturn(w)
    \/ \E w \in Workers : JobPanic(w)
    \/ DropClose
    \/ DropJoin

PoolSpecInit ==
    /\ handler = HANDLE_SOURCE_CONNECTION
    /\ RelayInit
    /\ cHeader = <<>> /\ cPayload = <<>> /\ cOut = NoCodecOut
    /\ PoolInit

PoolSpec == PoolSpecInit /\ [][PoolNext]_vars

\* the scheduler runs a worker that can lock, receive or leave its loop, and
\* the thread that joins; a job may run for ever and the client need not
\* send or drop
PoolWorkerStep(w) ==
    PoolWorkerLock(w) \/ PoolWorkerRecv(w) \/ PoolWorkerRecvErr(w)

PoolFairness ==
    /\ \A w \in Workers : WF_vars(PoolWorkerStep(w))
    /\ WF_vars(DropJoin)

PoolFairSpec == PoolSpec /\ PoolFairness

(***************************************************************************)
(* The codec functions as pure functions: the inputs are drawn from        *)
(* bounded sets and the functions applied to them.                         *)
(***************************************************************************)
CodecHeaders ==
    {<<b0, b1, b2, b3, b4, b5, b6, b7>> :
        b0 \in {204, 171}, b1 \in {0, 64, 1, 65}, b2 \in {0, 255},
        b3 \in {0, 1, 2, 255}, b4 \in {0, 30, 255}, b5 \in {0, 241, 254, 255},
        b6 \in {0, 1}, b7 \in {0, 1}}

CodecBytes == {0, 102, 241, 255}

CodecPayloads == UNION {[1..n -> CodecBytes] : n \in 0..MaxPayloadLen}

CodecInit ==
    /\ handler = HANDLE_TRANSMITTER
    /\ RelayInit
    /\ PoolInit
    /\ cHeader \in CodecHeaders
    /\ cPayload \in CodecPayloads
    /\ cOut = [NoCodecOut EXCEPT !.stage = "input"]

\* validate_header(&header)
CodecValidate ==
    /\ cOut.stage = "input"
    /\ cOut' = [cOut EXCEPT !.stage = "validated",
                            !.validated = validate_header(cHeader)]
    /\ UNCHANGED <<cHeader, cPayload, relayVars, poolVars>>

\* verify_checksum(&header, &payload), and the checksum main.rs computes
CodecChecksum ==
    /\ cOut.stage = "validated"
    /\ cOut' = [cOut EXCEPT !.stage = "summed",
                            !.lib_checksum = verify_checksum(cHeader, cPayload),
                            !.source_checksum = source_checksum(cHeader, cPayload)]
    /\ UNCHANGED <<cHeader, cPayload, relayVars, poolVars>>

CodecNext == CodecValidate \/ CodecChecksum

CodecSpec == CodecInit /\ [][CodecNext]_vars

(***************************************************************************)
(* Properties.                                                             *)
(***************************************************************************)
\* the 16-bit one's-complement Internet checksum of a byte sequence: the
\* big-endian words of the sequence, an odd last byte padded with 00, are
\* summed, the carries folded until none is left, the result complemented
RefWord(bytes, i) ==
    bytes[2 * i - 1] * 256 + (IF 2 * i <= Len(bytes) THEN bytes[2 * i] ELSE 0)

RECURSIVE RefSum(_, _)
RefSum(bytes, n) == IF n = 0 THEN 0 ELSE RefSum(bytes, n - 1) + RefWord(bytes, n)

RECURSIVE RefFold(_)
RefFold(x) == IF x > 65535 THEN RefFold((x % 65536) + (x \div 65536)) ELSE x

InternetChecksum(header, payload) ==
    LET bytes == SubSeq(header, 1, 4) \o <<204, 204>> \o SubSeq(header, 7, 8) \o payload
    IN  65535 - RefFold(RefSum(bytes, (Len(bytes) + 1) \div 2))

\* C8: for every header and payload the checksum function returns the
\* Internet checksum of (header with bytes 4-5 replaced by CC CC) || payload,
\* fully folded, also when the first fold produces a carry.
C8_ChecksumIsInternetChecksum ==
    cOut.stage = "summed" =>
        /\ cOut.lib_checksum = InternetChecksum(cHeader, cPayload)
        /\ cOut.source_checksum = InternetChecksum(cHeader, cPayload)

\* C10: validate_header returns InvalidMagic if h[0] # CC; else InvalidPadding
\* if h[6..8] # 00 00; else InvalidPadding if bit 6 of h[1] is clear and
\* h[4..6] # 00 00; else InvalidLength if the 16-bit length is 0 or exceeds
\* 65536; else success with that length unchanged and sensitive = bit 6.
C10_ValidateHeaderPrecedence ==
    cOut.stage # "input" =>
        LET h == cHeader
            r == cOut.validated
            bit6 == (h[2] \div 64) % 2 = 1
            len == h[3] * 256 + h[4]
            InvalidMagic == ~r.ok /\ r.err = ERR_MAGIC
            InvalidPadding == ~r.ok /\ r.err \in {ERR_PADDING, ERR_PADDING_NS}
            InvalidLength == ~r.ok /\ r.err = ERR_LENGTH
        IN  IF h[1] # 204 THEN InvalidMagic
            ELSE IF h[7] # 0 \/ h[8] # 0 THEN InvalidPadding
            ELSE IF ~bit6 /\ (h[5] # 0 \/ h[6] # 0) THEN InvalidPadding
            ELSE IF len = 0 \/ len > 65536 THEN InvalidLength
            ELSE r.ok /\ r.length = len /\ r.sensitive = bit6

\* C10 witness: a header with good magic, bad padding and length 0 has been
\* validated (the padding error takes precedence over the length error)
C10_Witness ==
    /\ cOut.stage = "validated"
    /\ cHeader[1] = 204 /\ cHeader[8] = 1
    /\ cHeader[3] = 0 /\ cHeader[4] = 0
    /\ cOut.validated.err = ERR_PADDING

(***************************************************************************)
(* Properties of the relay.                                                *)
(***************************************************************************)
\* a broadcast is in progress (the roster lock is held for it)
Broadcasting == bc.by # None

\* worker w has run retain_mut to its end and still holds the roster lock:
\* the broadcast has just returned
BroadcastReturned(w) ==
    wpc[w] = "retain" /\ rosterLock = w /\ widx[w] > Len(roster)

\* C1: at most one source session is running (reading, validating or
\* broadcasting); a source connection accepted while the slot is occupied is
\* closed with none of its bytes read or broadcast, and the slot and the
\* admitted session are left unchanged.
C1_Exclusive ==
    /\ Cardinality({w \in Workers : InLoop(w)}) <= 1
    /\ \A c \in Conns :
         connState[c] = "rejected" =>
            /\ \A w \in Workers : wconn[w] # c
            /\ c \notin Range(queue)
            /\ active # c
            /\ bcastCount[c] = 0 /\ bc.conn # c

C1_RejectStep ==
    ((mainPc = "check" /\ mainPc' # "check" /\ active # None) =>
        /\ connState'[mainConn] = "rejected"
        /\ UNCHANGED <<active, queue, wpc, wconn, whdr, wpayload, roster,
                       bcastCount, destLog>>)

C1_AdmissionExclusivity == [](C1_Exclusive) /\ [][C1_RejectStep]_vars

\* C1 witness: a connection has been rejected while the session of another
\* one is in its loop
C1_Witness ==
    \E c \in Conns, w \in Workers :
        /\ connState[c] = "rejected"
        /\ InLoop(w) /\ wconn[w] # c /\ active = wconn[w]

\* C3: when a broadcast of frame f returns, every sink still in the roster
\* that was in it when the broadcast began has received, for this broadcast,
\* exactly the bytes header(f) || payload(f) as read from the source.
C3_Fidelity ==
    \A w \in Workers :
        BroadcastReturned(w) =>
            \A d \in Range(roster) \cap Range(bc.start) :
                /\ bc.delivered[d] = whdr[w] \o wpayload[w]
                /\ destLog[d] = Append(bc.before[d], [n |-> bc.n, full |-> TRUE])

\* C3 witness: the broadcast of a sensitive frame has returned with a sink
\* retained
C3_Witness ==
    \E w \in Workers :
        /\ BroadcastReturned(w)
        /\ roster # <<>>
        /\ whdr[w] = H_SENSITIVE

\* C4: for every sink in the roster at the start of a broadcast, the sink is
\* absent from the roster right after the broadcast iff its write failed; a
\* failing sink does not keep the remaining sinks from being written, and the
\* sinks whose write succeeded are all retained (in their order).
C4_Eviction ==
    \A w \in Workers :
        BroadcastReturned(w) =>
            /\ bc.failed \cup bc.written = Range(bc.start)
            /\ bc.failed \cap bc.written = {}
            /\ \A d \in Range(bc.start) :
                 /\ (d \notin Range(roster)) <=> (d \in bc.failed)
                 /\ destOk[d] => d \in bc.written
                 /\ (d \in bc.written) <=> (bc.delivered[d] = bc.frame)
            /\ roster = SelectSeq(bc.start, LAMBDA d : d \notin bc.failed)

\* C4 witness: a broadcast has returned in which the first sink failed and a
\* later one was written
C4_Witness ==
    \E w \in Workers :
        /\ BroadcastReturned(w)
        /\ Len(bc.start) = 2
        /\ bc.start[1] \in bc.failed
        /\ bc.start[2] \in bc.written

\* the session function finds the checksum of a sensitive frame to differ
\* from header bytes 4-5
Mismatch(header, payload) ==
    /\ (header[2] \div 64) % 2 = 1
    /\ computed_checksum(handler, header, payload) # header[5] * 256 + header[6]

\* C5: a sensitive frame whose computed checksum differs from header bytes
\* 4-5 is never broadcast, and it does not end the session: the slot stays
\* occupied by the same source and the session goes on to the next frame.
C5_NoMismatchBroadcast ==
    Broadcasting => ~Mismatch(bc.header, bc.payload)

C5_DropStep ==
    \A w \in Workers :
        (wpc[w] = "read_payload" /\ wpayload'[w] # <<>>
            /\ Mismatch(whdr[w], wpayload'[w])) =>
            /\ wpc'[w] = "read_header"
            /\ wconn'[w] = wconn[w]
            /\ active = wconn[w] /\ active' = active
            /\ ~errSeen'[wconn[w]]
            /\ connState'[wconn[w]] = "running"
            /\ UNCHANGED <<bcastCount, destLog, roster>>

C5_MismatchDropped == [](C5_NoMismatchBroadcast) /\ [][C5_DropStep]_vars

\* C5 witness: after a frame of the source was dropped, the broadcast of a
\* following frame of the same source has returned with a sink retained
C5_Witness ==
    \E w \in Workers :
        /\ BroadcastReturned(w)
        /\ dropSeen[wconn[w]]
        /\ active = wconn[w]
        /\ roster # <<>>

\* a header with bad magic, bad padding or bad length
BadHeader(h) ==
    \/ h[1] # 204
    \/ h[7] # 0 \/ h[8] # 0
    \/ h[3] * 256 + h[4] = 0

\* C6: a header validation error or a short read is terminal: the session
\* leaves its loop, nothing is broadcast for it from then on, and the error
\* leaves the roster unchanged.
C6_Terminal ==
    \A c \in Conns :
        errSeen[c] =>
            \/ connState[c] = "ended"
            \/ \E w \in Workers : wconn[w] = c /\ wpc[w] \in {"exit", "clear"}

C6_ErrorStep ==
    /\ \A c \in Conns :
         errSeen'[c] =>
            /\ bcastCount'[c] = bcastCount[c]
            /\ ~errSeen[c] => UNCHANGED <<roster, destLog, bcastCount>>
    /\ \A w \in Workers :
         (wpc[w] = "read_header" /\ nReads' # nReads /\ BadHeader(whdr'[w])) =>
            errSeen'[wconn[w]] /\ wpc'[w] = "exit"

C6_ErrorsAreTerminal == [](C6_Terminal) /\ [][C6_ErrorStep]_vars

\* C6 witness: a session that had broadcast a frame has ended on an error
\* and the roster still holds a sink
C6_Witness ==
    \E c \in Conns :
        /\ errSeen[c] /\ connState[c] = "ended"
        /\ bcastCount[c] > 0
        /\ roster # <<>>

\* C7: a non-sensitive frame whose header bytes 4-5 are not 00 00 is never
\* broadcast (it is rejected as InvalidPadding and ends the session).
C7_NonSensitiveChecksumZero ==
    Broadcasting =>
        LET h == bc.header
        IN  (h[2] \div 64) % 2 = 0 => (h[5] = 0 /\ h[6] = 0)

\* C2: whenever a source session ends (it has left its loop for any reason),
\* the admission slot eventually becomes empty; and a source connection
\* accepted once the slot is empty is admitted and its session is run.
C2_AdmissionRelease ==
    /\ \A w \in Workers : (wpc[w] = "exit") ~> (active = None)
    /\ \A c \in Conns :
         (mainPc = "lock" /\ mainConn = c /\ active = None)
            ~> (connState[c] = "running" /\ active = c)

\* C2 witness: a session has ended and the session of a connection accepted
\* later is in its loop
C2_Witness ==
    \E c1, c2 \in Conns, w \in Workers :
        /\ c1 < c2
        /\ connState[c1] = "ended"
        /\ connState[c2] = "running" /\ wconn[w] = c2 /\ InLoop(w)

\* byte b with bit k flipped
FlipBit(b, k) == IF (b \div (2 ^ k)) % 2 = 1 THEN b - 2 ^ k ELSE b + 2 ^ k

\* the frames that differ from (header, payload) in a single bit of the
\* header outside bytes 4-5, or in a single bit of the payload
SingleBitFlips(header, payload) ==
    {[header |-> [header EXCEPT ![i] = FlipBit(header[i], k)], payload |-> payload] :
        i \in {1, 2, 3, 4, 7, 8}, k \in 0..7}
    \cup
    {[header |-> header, payload |-> [payload EXCEPT ![i] = FlipBit(payload[i], k)]] :
        i \in 1..Len(payload), k \in 0..7}

\* a well-formed sensitive frame whose bytes 4-5 hold its computed checksum
Checksummed(header, payload) ==
    /\ header[1] = 204
    /\ (header[2] \div 64) % 2 = 1
    /\ header[7] = 0 /\ header[8] = 0
    /\ header[3] * 256 + header[4] = Len(payload) /\ Len(payload) > 0
    /\ computed_checksum(handler, header, payload) = header[5] * 256 + header[6]

\* C9: a sensitive frame whose bytes 4-5 hold the computed checksum passes
\* verification and is broadcast; a frame that differs from such a frame in
\* one bit of the header outside bytes 4-5, or in one bit of the payload, is
\* not broadcast.
C9_NoFlippedBroadcast ==
    Broadcasting =>
        \A f \in SingleBitFlips(bc.header, bc.payload) :
            ~Checksummed(f.header, f.payload)

C9_PassStep ==
    \A w \in Workers :
        (wpc[w] = "read_payload" /\ wpayload'[w] # <<>>
            /\ Checksummed(whdr[w], wpayload'[w])) => wpc'[w] = "broadcast"

C9_RoundTrip == [](C9_NoFlippedBroadcast) /\ [][C9_PassStep]_vars

\* C11: reserved option bits must be zero: a frame whose header is
\* non-sensitive (bit 6 of byte 1 clear) and has any other bit of byte 1 set
\* is never broadcast.
C11_ReservedBitsZero ==
    Broadcasting =>
        LET options == bc.header[2]
        IN  (options \div 64) % 2 = 0 => options = 0

\* a header with magic CC, bit 6 of the options clear, checksum field 0000,
\* padding 0000 and length in 1..65535
Bypass(h) ==
    /\ h[1] = 204
    /\ (h[2] \div 64) % 2 = 0
    /\ h[5] = 0 /\ h[6] = 0 /\ h[7] = 0 /\ h[8] = 0
    /\ h[3] * 256 + h[4] \in 1..65535

\* the step that completes the reception of a frame with a bypass header
\* hands the frame, unchanged, to the broadcast: it is not dropped and does
\* not end the session
C12_BypassStep ==
    \A w \in Workers :
        (wpc[w] = "read_payload" /\ wpayload'[w] # <<>> /\ Bypass(whdr[w])) =>
            /\ wpc'[w] = "broadcast"
            /\ whdr'[w] = whdr[w]
            /\ ~dropSeen'[wconn[w]] \/ dropSeen[wconn[w]]
            /\ ~errSeen'[wconn[w]]

\* C12: every fully received frame whose header has magic CC, bit 6 clear,
\* checksum field 0000, padding 0000 and length in 1..65535 is broadcast,
\* whatever its payload is: receiving it leads to the broadcast of exactly
\* header || payload, with no checksum comparison deciding otherwise.
C12_NonSensitiveBypass ==
    /\ [][C12_BypassStep]_vars
    /\ [](\A w \in Workers :
            bc.by = w => /\ bc.header = whdr[w]
                         /\ bc.frame = whdr[w] \o wpayload[w])
    /\ \A w \in Workers :
         (wpc[w] = "broadcast" /\ Bypass(whdr[w]))
            ~> (bc.by = w /\ Bypass(bc.header))

\* C12 witness: the broadcast of a non-sensitive frame with checksum field
\* 0000 and payload DE has returned with a sink retained
C12_Witness ==
    \E w \in Workers :
        /\ BroadcastReturned(w)
        /\ whdr[w] = H_PLAIN /\ wpayload[w] = <<222>>
        /\ roster # <<>>
        /\ bc.delivered[roster[1]] = H_PLAIN \o <<222>>

\* C13: every exit of a source session, the exit by panic included, clears
\* the admission slot before the session is gone: the slot is never occupied
\* by a source whose session has returned or has panicked.
C13_SlotClearedOnEveryExit ==
    \A c \in Conns :
        connState[c] \in {"ended", "panicked"} => active # c

\* a source-session task for source c is live: submitted by the acceptor
\* that admitted c, queued in the pool, or executing on a worker
TaskLive(c) ==
    \/ mainPc = "submit" /\ mainConn = c
    \/ c \in Range(queue)
    \/ \E w \in Workers : wconn[w] = c

\* C14: the admission slot is occupied by a source iff a source-session task
\* for that source is live; the slot is not left occupied when the job of the
\* admitted source never runs.
C14_SlotIffTaskLive ==
    \A c \in Conns : (active = c) <=> TaskLive(c)

\* the sinks of the roster the broadcast in progress has not visited yet
Unvisited == {d \in Range(roster) : d \notin bc.written}

C15_Atomic ==
    /\ Broadcasting =>
         /\ rosterLock = bc.by /\ destPc # "push"
         /\ Range(roster) \subseteq Range(bc.start)
         /\ \A d \in Dests : d \notin Range(bc.start) => destLog[d] = bc.before[d]
         /\ \A d \in bc.written : bc.delivered[d] = bc.frame
         /\ \A d \in Unvisited : bc.delivered[d] = <<>>
    /\ \A d \in Dests :
         joinedAt[d] # NotJoined => (d \in Range(roster) \/ ~destOk[d])

C15_RosterStep ==
    roster' # roster =>
        \/ /\ ~Broadcasting /\ rosterLock = DestThread
           /\ roster' = Append(roster, destConn)
        \/ /\ Broadcasting /\ rosterLock = bc.by
           /\ \E i \in 1..Len(roster) :
                roster' = RemoveAt(roster, i) /\ ~destOk[roster[i]]

\* C15: a broadcast and a concurrent add never overlap: a sink is pushed
\* only between broadcasts and every push appends the sink; a sink in the
\* roster when a broadcast begins and whose write succeeds receives the
\* whole frame, a sink pushed later receives nothing of that broadcast; and
\* a pushed sink leaves the roster only because a write to it failed.
C15_BroadcastAtomicWithAdd == [](C15_Atomic) /\ [][C15_RosterStep]_vars

\* C15 witness: the destination acceptor holds an accepted sink and waits
\* for the roster while a broadcast has written the whole frame to the sink
\* that was in the roster
C15_Witness ==
    /\ Broadcasting
    /\ destPc = "lock" /\ destConn # None
    /\ \E d \in bc.written : bc.delivered[d] = bc.frame /\ Len(bc.frame) > 8

C16_Prefix ==
    \A d \in Dests :
        LET log == destLog[d]
            k == joinedAt[d]
        IN  /\ k = NotJoined => log = <<>>
            /\ k # NotJoined =>
                 /\ \A i \in 1..Len(log) : log[i].n = k + i
                 /\ \A i \in 1..(Len(log) - 1) : log[i].full
                 /\ d \in Range(roster) =>
                      /\ \A i \in 1..Len(log) : log[i].full
                      /\ k + Len(log) =
                            IF Broadcasting /\ d \in Unvisited
                            THEN BroadcastsBegun - 1 ELSE BroadcastsBegun

C16_OrderStep ==
    /\ nReads' # nReads =>
         \A w \in Workers : wpc[w] \notin {"broadcast", "retain"}
    /\ \A d \in Dests :
         destLog'[d] # destLog[d] =>
            /\ d \in Range(roster)
            /\ Len(destLog'[d]) = Len(destLog[d]) + 1
            /\ SubSeq(destLog'[d], 1, Len(destLog[d])) = destLog[d]

\* C16: a frame is broadcast before the next one is received, so broadcasts
\* follow the order of reception; what a destination receives is, in order
\* and with no gap or repetition, the broadcasts numbered from the one after
\* its insertion, all whole except possibly the last, which is the one whose
\* write failed; a destination in the roster has received every broadcast
\* since its insertion, and one no longer in the roster receives nothing.
C16_Ordering == [](C16_Prefix) /\ [][C16_OrderStep]_vars

\* C16 witness: a destination pushed before the first broadcast has received
\* two broadcasts and one pushed between them has received the second only
C16_Witness ==
    \E d1, d2 \in Dests :
        /\ joinedAt[d1] = 0 /\ Len(destLog[d1]) = 2
        /\ joinedAt[d2] = 1 /\ Len(destLog[d2]) = 1 /\ destLog[d2][1].n = 2

\* C17: a destination connection accepted by the destination acceptor is
\* always eventually appended to the roster, whatever the workers and the
\* source session do.
C17_DestinationEventuallyAdded ==
    \A d \in Dests : (destConn = d) ~> (joinedAt[d] # NotJoined)

C20_NoInterleaving ==
    /\ Broadcasting =>
         /\ active = bc.conn
         /\ connState[bc.conn] = "running"
    /\ \A c1, c2 \in Conns :
         (c1 < c2 /\ bcastCount[c2] > 0) =>
            connState[c1] \in {"ended", "rejected"}

C20_BroadcastStep ==
    \A c \in Conns :
        bcastCount'[c] # bcastCount[c] =>
            /\ active = c /\ active' = c
            /\ connState[c] = "running"
            /\ \A c2 \in Conns : c2 > c => bcastCount[c2] = 0

\* C20: a session broadcasts only while the slot holds its source, never
\* after it has cleared the slot, so every broadcast made for an earlier
\* admitted source precedes every broadcast made for a later admitted one.
C20_SessionsNeverInterleave ==
    [](C20_NoInterleaving) /\ [][C20_BroadcastStep]_vars

\* C20 witness: the session of the second source is broadcasting after the
\* session of the first source, which had broadcast a frame, has ended
C20_Witness ==
    /\ Broadcasting /\ bc.conn = 2 /\ bc.written # {}
    /\ bcastCount[1] > 0 /\ connState[1] = "ended"

(***************************************************************************)
(* Properties of the worker pool.                                          *)
(***************************************************************************)
\* C18: Drop first closes the job queue and returns only after every worker
\* thread has ended, every job sent to the pool having been run to its end
\* (by return or by its own panic) - the jobs being executed and the jobs
\* still queued when the pool was dropped; a worker that ended by panic is
\* reported by its join and the remaining workers are joined all the same.
C18_Shutdown ==
    /\ dropPc # "alive" => ~sender
    /\ dropPc = "joined" =>
         /\ \A w \in Workers : workerPc[w] \in {"exited", "panicked"}
         /\ joinErr = {w \in Workers : workerPc[w] = "panicked"}
         /\ channel = <<>>
         /\ \A j \in Jobs : jobState[j] \notin {"queued", "running", "undrained"}

C19_LockOnlyToTake ==
    /\ \A w \in Workers : receiverLock = w => workerPc[w] = "recv"
    /\ taken = [i \in 1..Len(taken) |-> i]

\* C19: a worker holds the receiver lock only while it takes a job and has
\* released it when the job starts; the jobs are taken in the order they
\* were sent; and the job at the head of the queue is taken whenever some
\* worker is not executing a job, however long the other jobs run.
C19_WorkerReleasesLock ==
    /\ [](C19_LockOnlyToTake)
    /\ \A j \in Jobs :
         (/\ channel # <<>> /\ Head(channel) = j
          /\ \E w \in Workers : workerPc[w] \in {"lock", "recv"})
            ~> (jobState[j] # "queued")

\* C19 witness: the second job is being executed by one worker while the
\* first job is still being executed by the other
C19_Witness ==
    \E w1, w2 \in Workers :
        /\ workerPc[w1] = "job" /\ workerJob[w1] = 1
        /\ workerPc[w2] = "job" /\ workerJob[w2] = 2
        /\ receiverLock = None

(***************************************************************************)
(* Lock discipline of the relay.                                           *)
(***************************************************************************)
Threads == {MainThread, DestThread} \cup Workers

\* the mutexes thread t holds
HeldBy(t) ==
    {m \in {"active_source", "receivers", "receiver"} :
        \/ m = "active_source" /\ activeLock = t
        \/ m = "receivers" /\ rosterLock = t
        \/ m = "receiver" /\ queueLock = t}

\* thread t is at a lock() call, waiting for a mutex
AtLock(t) ==
    \/ t = MainThread /\ mainPc = "lock"
    \/ t = DestThread /\ destPc = "lock"
    \/ t \in Workers /\ wpc[t] \in {"idle", "broadcast", "exit"}

C21_Discipline ==
    \A t \in Threads :
        /\ Cardinality(HeldBy(t)) <= 1
        /\ HeldBy(t) # {} => ~AtLock(t)

C21_AcquireStep ==
    \A t \in Threads :
        (\/ activeLock # t /\ activeLock' = t
         \/ rosterLock # t /\ rosterLock' = t
         \/ queueLock # t /\ queueLock' = t) =>
            /\ HeldBy(t) = {}
            /\ AtLock(t)

\* C21: no thread holds the roster mutex and the admission-slot mutex at
\* once, and none acquires a mutex while it holds the job-queue lock: a
\* thread takes a mutex only when it holds none and a thread that holds one
\* waits for none, so no cycle of waiting threads can form; the admission
\* mutex, once taken, is always released, and the source acceptor always
\* obtains it.
C21_NoDeadlock ==
    /\ [](C21_Discipline)
    /\ [][C21_AcquireStep]_vars
    /\ (activeLock # None) ~> (activeLock = None)
    /\ (mainPc = "lock") ~> (mainPc = "check")

\* C21 witness: the three mutexes are held by three different threads (a
\* session in its broadcast, the source acceptor in its check, an idle
\* worker in recv) while the destination acceptor waits for the roster
C21_Witness ==
    \E w1, w2 \in Workers :
        /\ w1 # w2
        /\ rosterLock = w1 /\ wpc[w1] = "retain"
        /\ queueLock = w2 /\ wpc[w2] = "recv"
        /\ activeLock = MainThread
        /\ destPc = "lock" /\ destConn # None

=============================================================================
